---- MODULE Spec2Model ----
(***************************************************************************)
(* A model of haskell_demangle (demangle-ghc.c): the scanning loop over    *)
(* the mangled input, the str_buf accumulator it writes into, and the heap *)
(* blocks malloc/realloc/free hand out.  Bytes are numbers 0..255 (the bit *)
(* pattern of a char); the input is ASCII and ends with the terminator 0.  *)
(***************************************************************************)
EXTENDS Integers, Sequences, FiniteSets, TLC

VARIABLES input, mangled, c, buf, heap, nalloc, pc, char_code, arity, i, res,
          allocFailed, fault, iter

vars == <<input, mangled, c, buf, heap, nalloc, pc, char_code, arity, i, res,
          allocFailed, fault, iter>>

(***************************************************************************)
(* Characters.                                                             *)
(***************************************************************************)
Ord ==
  [ch \in {"0", "9", "A", "C", "F", "H", "T", "U", "Z", "a", "f", "z",
           "(", ")", ",", "#", " "} |->
     CASE ch = "0" -> 48  [] ch = "9" -> 57  [] ch = "A" -> 65  [] ch = "C" -> 67
       [] ch = "F" -> 70  [] ch = "H" -> 72  [] ch = "T" -> 84  [] ch = "U" -> 85
       [] ch = "Z" -> 90  [] ch = "a" -> 97  [] ch = "f" -> 102 [] ch = "z" -> 122
       [] ch = "(" -> 40  [] ch = ")" -> 41  [] ch = "," -> 44  [] ch = "#" -> 35
       [] ch = " " -> 32]

NUL == 0

\* (a variant of isdigit without the lower limit)
isdigit_NoFloor(ch) == ch <= Ord["9"]

isdigit(ch) == ch >= Ord["0"] /\ ch <= Ord["9"]

isxdigit(ch) ==
  \/ isdigit(ch)
  \/ (ch >= Ord["a"] /\ ch <= Ord["f"])
  \/ (ch >= Ord["A"] /\ ch <= Ord["F"])

\* (a variant of LetterIndex that is off by one)
LetterIndex_Off(ch, base) == ch - base + 1

\* the index PEEK - 'a', PEEK - 'C' into a table
LetterIndex(ch, base) == ch - base

\* z_chars[ch - 'a'], the gaps of the designated initializer being '\0'
z_chars(idx) ==
  CASE idx = 0  -> 38   \* a &
    [] idx = 1  -> 124  \* b |
    [] idx = 2  -> 94   \* c ^
    [] idx = 3  -> 36   \* d $
    [] idx = 4  -> 61   \* e =
    [] idx = 6  -> 62   \* g >
    [] idx = 7  -> 35   \* h #
    [] idx = 8  -> 46   \* i .
    [] idx = 11 -> 60   \* l <
    [] idx = 12 -> 45   \* m -
    [] idx = 13 -> 33   \* n !
    [] idx = 15 -> 43   \* p +
    [] idx = 16 -> 39   \* q '
    [] idx = 17 -> 92   \* r \
    [] idx = 18 -> 47   \* s /
    [] idx = 19 -> 42   \* t *
    [] idx = 20 -> 95   \* u _
    [] idx = 21 -> 37   \* v %
    [] idx = 25 -> 122  \* z z
    [] OTHER    -> NUL

\* (a variant of Z_chars whose last entry is missing)
Z_chars_Short(idx) ==
  CASE idx = 0  -> 58
    [] idx = 9  -> 40
    [] idx = 10 -> 91
    [] idx = 11 -> 93
    [] idx = 15 -> 41
    [] OTHER    -> NUL

\* Z_chars[ch - 'C']
Z_chars(idx) ==
  CASE idx = 0  -> 58   \* C :
    [] idx = 9  -> 40   \* L (
    [] idx = 10 -> 91   \* M [
    [] idx = 11 -> 93   \* N ]
    [] idx = 15 -> 41   \* R )
    [] idx = 23 -> 90   \* Z Z
    [] OTHER    -> NUL

(***************************************************************************)
(* uint32_t: a pair of 16-bit halves, so that values up to 2^32 - 1 and    *)
(* the wrap-around of *= and += are computed exactly.                      *)
(***************************************************************************)
Half == 65536

U32(n) == [hi |-> (n \div Half) % Half, lo |-> n % Half]

\* x *= k, for a small k
U32Mul(x, k) ==
  LET t == x.lo * k
  IN  [hi |-> (x.hi * k + t \div Half) % Half, lo |-> t % Half]

\* x += d, for a small int d (negative d converts modulo 2^32)
U32Add(x, d) ==
  LET t  == x.lo + d
      lo == t % Half
  IN  [hi |-> (x.hi + (t - lo) \div Half) % Half, lo |-> lo]

\* x <= n and x = n, for a constant n below 2^31
U32Leq(x, n) ==
  \/ x.hi < n \div Half
  \/ (x.hi = n \div Half /\ x.lo <= n % Half)

U32Eq(x, n) == x.hi = n \div Half /\ x.lo = n % Half

\* i < x, for a size_t i below 2^16
U32Above(x, n) == x.hi > 0 \/ n < x.lo

\* the value as an int (for x below 2^31)
U32Int(x) == x.hi * Half + x.lo

\* Conversion to size_t.  Every value of 2^16 or more is above MaxHeap, so
\* they are all represented by 2^16: a request of that size is refused.
U32Size(x) == IF x.hi > 0 THEN Half ELSE x.lo

(***************************************************************************)
(* The heap: the live blocks, each a sequence of cells.  Uninit marks a    *)
(* byte with an indeterminate value.                                       *)
(***************************************************************************)
MaxHeap == 64

NULL == 0

Uninit == -1

DEFAULT_BUF_SIZE == 20

\* The machine state the accumulator operations work on, and their status:
\* err is the bool the str_buf_* functions return, ret a returned pointer.
Machine ==
  [buf |-> buf, heap |-> heap, nalloc |-> nalloc, oom |-> allocFailed,
   fault |-> fault, err |-> FALSE, ret |-> NULL]

\* realloc(ptr, size); malloc(size) is realloc(NULL, size).  ok is whether the
\* allocator can satisfy the request; no request above MaxHeap is satisfied.
\* On failure the old block stays allocated.
realloc(m, ptr, size, ok) ==
  IF ~ok \/ size > MaxHeap
  THEN [m EXCEPT !.oom = TRUE, !.ret = NULL]
  ELSE LET id   == m.nalloc + 1
           old  == IF ptr = NULL THEN <<>> ELSE m.heap[ptr]
           new  == [j \in 1..size |-> IF j <= Len(old) THEN old[j] ELSE Uninit]
           rest == [b \in (DOMAIN m.heap) \ {ptr} |-> m.heap[b]]
       IN  [m EXCEPT !.heap = (id :> new) @@ rest, !.nalloc = id, !.ret = id]

\* free(ptr); free(NULL) does nothing
free(m, ptr) ==
  [m EXCEPT !.heap = [b \in (DOMAIN m.heap) \ {ptr} |-> m.heap[b]]]

\* data[at] = ch (at counted from 0): undefined through a null pointer or
\* outside the block, recorded in fault
Poke(m, at, ch) ==
  IF m.fault # "none" THEN m
  ELSE IF m.buf.data = NULL THEN [m EXCEPT !.fault = "null_write"]
  ELSE IF at >= Len(m.heap[m.buf.data]) THEN [m EXCEPT !.fault = "oob_write"]
  ELSE [m EXCEPT !.heap[m.buf.data][at + 1] = ch]

\* buf->data[buf->length++] = ch
Store(m, ch) ==
  LET w == Poke(m, m.buf.length, ch)
  IN  IF w.fault # "none" THEN w ELSE [w EXCEPT !.buf.length = @ + 1]

RECURSIVE StoreAll(_, _)
StoreAll(m, s) ==
  IF s = <<>> THEN m ELSE StoreAll(Store(m, Head(s)), Tail(s))

\* (a variant of GrowCapacity that does not grow)
GrowCapacity_Same(capacity) == capacity

\* the new capacity of str_buf_push: 1.5x
GrowCapacity(capacity) == capacity + capacity \div 2

str_buf_push(m, ch, ok) ==
  IF m.buf.length = m.buf.capacity
  THEN LET capacity == GrowCapacity(m.buf.capacity)
           r == realloc(m, m.buf.data, capacity, ok)
           g == [r EXCEPT !.buf.capacity = capacity, !.buf.data = r.ret]
       IN  IF g.buf.data = NULL THEN [g EXCEPT !.err = TRUE] ELSE Store(g, ch)
  ELSE Store(m, ch)

\* (a variant of ReserveCapacity that always grows to the exact length)
ReserveCapacity_Exact(capacity, new_len) == new_len

\* the capacity str_buf_reserve asks for when new_len > capacity
ReserveCapacity(capacity, new_len) ==
  IF new_len > capacity + capacity \div 2
  THEN new_len
  ELSE capacity + capacity \div 2

str_buf_reserve(m, amt, ok) ==
  LET new_len == m.buf.length + amt
  IN  IF new_len > m.buf.capacity
      THEN LET capacity == ReserveCapacity(m.buf.capacity, new_len)
               r == realloc(m, m.buf.data, capacity, ok)
           IN  IF r.ret = NULL
               THEN [r EXCEPT !.buf.data = NULL, !.err = TRUE]
               ELSE [r EXCEPT !.buf.data = r.ret, !.buf.capacity = capacity]
      ELSE m

\* memcpy(buf->data, str, len): the destination is the start of the storage
RECURSIVE memcpy(_, _, _)
memcpy(m, at, s) ==
  IF s = <<>> THEN m ELSE memcpy(Poke(m, at, Head(s)), at + 1, Tail(s))

str_buf_push_str(m, str, ok) ==
  LET len == Len(str)
      r   == str_buf_reserve(m, len, ok)
  IN  IF r.err THEN r
      ELSE LET w == memcpy(r, 0, str)
           IN  IF w.fault # "none" THEN w ELSE [w EXCEPT !.buf.length = @ + len]

(***************************************************************************)
(* Bit operations on non-negative ints.                                    *)
(***************************************************************************)
\* (a variant of Shr that shifts by one bit less)
Shr_Less(v, n) == v \div (2 ^ (IF n > 0 THEN n - 1 ELSE 0))

\* char_code >> n
Shr(v, n) == v \div (2 ^ n)

RECURSIVE BitAnd(_, _)
BitAnd(a, b) ==
  IF a = 0 \/ b = 0 THEN 0
  ELSE (IF a % 2 = 1 /\ b % 2 = 1 THEN 1 ELSE 0) + 2 * BitAnd(a \div 2, b \div 2)

RECURSIVE BitOr(_, _)
BitOr(a, b) ==
  IF a = 0 THEN b
  ELSE IF b = 0 THEN a
  ELSE (IF a % 2 = 1 \/ b % 2 = 1 THEN 1 ELSE 0) + 2 * BitOr(a \div 2, b \div 2)

\* the bytes str_buf_push_char_code PUSHes for a char_code <= 0x10FFFF
Utf8Bytes(v) ==
  IF v <= 127 THEN <<v>>
  ELSE IF v <= 2047
  THEN <<BitOr(BitAnd(Shr(v, 6), 31), 192), BitOr(BitAnd(Shr(v, 0), 63), 128)>>
  ELSE IF v <= 65535
  THEN <<BitOr(BitAnd(Shr(v, 12), 15), 224), BitOr(BitAnd(Shr(v, 6), 63), 128),
         BitOr(BitAnd(Shr(v, 0), 63), 128)>>
  ELSE <<BitOr(BitAnd(Shr(v, 18), 7), 240), BitOr(BitAnd(Shr(v, 12), 63), 128),
         BitOr(BitAnd(Shr(v, 6), 63), 128), BitOr(BitAnd(Shr(v, 0), 63), 128)>>

\* the largest char_code that is encoded
MaxCharCode == 1114111

str_buf_push_char_code(m, code, ok) ==
  LET r == str_buf_reserve(m, 4, ok)
  IN  IF r.err THEN r
      ELSE IF U32Leq(code, MaxCharCode) THEN StoreAll(r, Utf8Bytes(U32Int(code)))
      ELSE [r EXCEPT !.err = TRUE]

(***************************************************************************)
(* The inputs: null-terminated ASCII strings, a literal prefix, one escape *)
(* (or none) and a literal suffix.                                         *)
(***************************************************************************)
MaxLit == 32
MaxSuffix == 1
MaxArity == 12
MaxRep == 8
MaxShort == 3

\* literal bytes (none of them 'z' or 'Z'): g h c _ 1 T U H f 9
LitCycle == <<103, 104, 99, 95, 49, 84, 85, 72, 102, 57>>

Lit(k, from) == [j \in 1..k |-> LitCycle[((j - 1 + from) % Len(LitCycle)) + 1]]

DigitChar(d) == IF d < 10 THEN Ord["0"] + d ELSE Ord["a"] + (d - 10)

RECURSIVE Digits(_, _)
Digits(n, base) ==
  IF n < base THEN <<DigitChar(n)>>
  ELSE Append(Digits(n \div base, base), DigitChar(n % base))

Rep(ch, n) == [j \in 1..n |-> ch]

Upper(s) ==
  [j \in 1..Len(s) |-> IF s[j] >= Ord["a"] /\ s[j] <= Ord["z"] THEN s[j] - 32 ELSE s[j]]

RECURSIVE StringsUpTo(_, _)
StringsUpTo(S, n) ==
  IF n = 0 THEN {<<>>}
  ELSE LET shorter == StringsUpTo(S, n - 1)
       IN  shorter \cup {Append(s, x) : s \in shorter, x \in S}

\* the prefix lengths: empty, short, and the lengths at which a reserve of
\* four bytes and a push of one byte outgrow DEFAULT_BUF_SIZE
PadLens == {0, 3, DEFAULT_BUF_SIZE - 3, DEFAULT_BUF_SIZE}

\* code points at and around the tier boundaries of the encoding
CodePoints ==
  {0, 1, 65, 126, 127, 128, 129, 233, 2047, 2048, 8364, 55296, 65535, 65536,
   128512, 1114111, 1114112, 1114113}

LetterEscapes == {<<intro, b>> : intro \in {Ord["z"], Ord["Z"]}, b \in 1..127}

HexRuns ==
  {Digits(v, 16) : v \in CodePoints}
    \cup {<<Ord["0"]>> \o Digits(v, 16) : v \in CodePoints}
    \cup {Upper(Digits(v, 16)) : v \in CodePoints}
    \cup {<<Ord["0"] + 1>> \o Rep(Ord["0"], 8 - Len(Digits(v, 16))) \o Digits(v, 16) :
            v \in CodePoints}
    \cup {<<d>> \o Rep(ch, n) : d \in {Ord["0"], Ord["0"] + 1, Ord["0"] + 7},
                                ch \in {Ord["0"], Ord["f"], Ord["F"]}, n \in 0..MaxRep}

HexEscapes ==
  {<<Ord["z"]>> \o run \o end : run \in HexRuns, end \in {<<Ord["U"]>>, <<>>, <<88>>}}

\* the decimal digits of 2^32 without the last one
Dec32 == <<52, 50, 57, 52, 57, 54, 55, 50, 57>>

ArityRuns ==
  {Digits(n, 10) : n \in 0..MaxArity}
    \cup {<<Ord["0"]>> \o Digits(n, 10) : n \in 0..MaxArity}
    \cup {Append(Dec32, d) : d \in Ord["0"]..Ord["9"]}

TupleEscapes ==
  {<<Ord["Z"]>> \o run \o end :
     run \in ArityRuns, end \in {<<Ord["T"]>>, <<Ord["H"]>>, <<>>, <<88>>}}

ShortEscapes ==
  StringsUpTo({Ord["z"], Ord["Z"], Ord["T"], Ord["H"], Ord["0"], Ord["0"] + 2}, MaxShort)

Escapes == LetterEscapes \cup HexEscapes \cup TupleEscapes \cup ShortEscapes

Inputs ==
  {Lit(k, 0) \o <<NUL>> : k \in 0..MaxLit}
    \cup {Lit(k, 0) \o esc \o Lit(s, 3) \o <<NUL>> :
            k \in PadLens, esc \in Escapes, s \in 0..MaxSuffix}

(***************************************************************************)
(* haskell_demangle.                                                       *)
(***************************************************************************)
\* the bytes written so far: data[0 .. length-1]
Contents ==
  IF buf.data = NULL \/ buf.data \notin DOMAIN heap THEN <<>>
  ELSE SubSeq(heap[buf.data], 1, buf.length)

\* ADVANCE: c = (*mangled++); a read past the terminator is indeterminate
ADVANCE ==
  /\ c' = IF mangled <= Len(input) THEN input[mangled] ELSE Uninit
  /\ mangled' = mangled + 1

\* the accumulator after an operation; goto fail when it returned true
Commit(m, next) ==
  /\ buf' = m.buf
  /\ heap' = m.heap
  /\ nalloc' = m.nalloc
  /\ allocFailed' = m.oom
  /\ fault' = m.fault
  /\ pc' = IF m.fault # "none" THEN "ub" ELSE IF m.err THEN "fail" ELSE next

\* the statements after an accumulator operation run only if it succeeded
Then(m, A) == IF m.fault # "none" \/ m.err THEN UNCHANGED <<c, mangled>> ELSE A

\* goto fail
GotoFail ==
  /\ pc' = "fail"
  /\ UNCHANGED <<buf, heap, nalloc, allocFailed, fault>>

\* the position and the accumulator at the head of a loop iteration
Mark == iter' = [pos |-> mangled - 1, len |-> buf.length, data |-> Contents]

Init ==
  /\ input \in Inputs
  /\ mangled = 1
  /\ c = Uninit
  /\ buf = [capacity |-> 0, length |-> 0, data |-> NULL]
  /\ heap = <<>>
  /\ nalloc = 0
  /\ pc = "start"
  /\ char_code = U32(0)
  /\ arity = U32(0)
  /\ i = 0
  /\ res = NULL
  /\ allocFailed = FALSE
  /\ fault = "none"
  /\ iter = [pos |-> 0, len |-> 0, data |-> <<>>]

\* struct str_buf buf = {size, 0, malloc(size)}; ADVANCE
EnterWith(size) ==
  /\ pc = "start"
  /\ \E ok \in BOOLEAN :
       LET m == realloc(Machine, NULL, size, ok)
       IN  Commit([m EXCEPT !.buf = [capacity |-> size, length |-> 0,
                                      data |-> m.ret]], "loop")
  /\ ADVANCE
  /\ UNCHANGED <<input, char_code, arity, i, res, iter>>

\* struct str_buf buf = {DEFAULT_BUF_SIZE, 0, malloc(DEFAULT_BUF_SIZE)}; ADVANCE
Enter == EnterWith(DEFAULT_BUF_SIZE)

\* case 'z': ADVANCE; if (isdigit(PEEK)) { uint32_t char_code = 0; ...
CaseLowerZ ==
  /\ pc = "loop"
  /\ c = Ord["z"]
  /\ Mark
  /\ ADVANCE
  /\ pc' = IF isdigit(c') THEN "hex" ELSE "z_letter"
  /\ char_code' = IF isdigit(c') THEN U32(0) ELSE char_code
  /\ UNCHANGED <<input, buf, heap, nalloc, arity, i, res, allocFailed, fault>>

\* the body of the do-while over the hex run
HexDigit ==
  /\ pc = "hex"
  /\ char_code' = U32Add(U32Mul(char_code, 16),
                         IF c <= Ord["9"] THEN c - Ord["0"] ELSE 10 + c - Ord["a"])
  /\ ADVANCE
  /\ pc' = IF isxdigit(c') THEN "hex" ELSE "hex_end"
  /\ UNCHANGED <<input, buf, heap, nalloc, arity, i, res, allocFailed, fault, iter>>

\* if (PEEK != 'U') goto fail; if (str_buf_push_char_code(..)) goto fail; ADVANCE
HexEnd ==
  /\ pc = "hex_end"
  /\ IF c # Ord["U"]
     THEN GotoFail /\ UNCHANGED <<c, mangled>>
     ELSE \E ok \in BOOLEAN :
            LET m == str_buf_push_char_code(Machine, char_code, ok)
            IN  Commit(m, "loop") /\ Then(m, ADVANCE)
  /\ UNCHANGED <<input, char_code, arity, i, res, iter>>

\* the letter after 'z': z_chars
ZLowerLetter ==
  /\ pc = "z_letter"
  /\ IF c < Ord["a"] \/ c > Ord["z"]
     THEN GotoFail /\ UNCHANGED <<c, mangled>>
     ELSE LET out == z_chars(LetterIndex(c, Ord["a"]))
          IN  IF out = NUL
              THEN GotoFail /\ UNCHANGED <<c, mangled>>
              ELSE \E ok \in BOOLEAN :
                     LET m == str_buf_push(Machine, out, ok)
                     IN  Commit(m, "loop") /\ Then(m, ADVANCE)
  /\ UNCHANGED <<input, char_code, arity, i, res, iter>>

\* case 'Z': ADVANCE; if (isdigit(PEEK)) { uint32_t arity = 0; ...
CaseUpperZ ==
  /\ pc = "loop"
  /\ c = Ord["Z"]
  /\ Mark
  /\ ADVANCE
  /\ pc' = IF isdigit(c') THEN "arity" ELSE "Z_letter"
  /\ arity' = IF isdigit(c') THEN U32(0) ELSE arity
  /\ UNCHANGED <<input, buf, heap, nalloc, char_code, i, res, allocFailed, fault>>

\* the body of the do-while over the arity run
ArityDigit ==
  /\ pc = "arity"
  /\ arity' = U32Add(U32Mul(arity, 10), c - Ord["0"])
  /\ ADVANCE
  /\ pc' = IF isdigit(c') THEN "arity" ELSE "arity_end"
  /\ UNCHANGED <<input, buf, heap, nalloc, char_code, i, res, allocFailed, fault, iter>>

\* case 'T': the ordinary tuple
TupleT ==
  /\ pc = "arity_end"
  /\ c = Ord["T"]
  /\ ADVANCE
  /\ IF U32Eq(arity, 0)
     THEN /\ \E ok \in BOOLEAN :
               LET r == str_buf_reserve(Machine, 2, ok)
               IN  Commit(IF r.err THEN r ELSE StoreAll(r, <<Ord["("], Ord[")"]>>),
                          "loop")
          /\ i' = i
     ELSE IF U32Eq(arity, 1)
     THEN GotoFail /\ i' = i
     ELSE /\ \E ok \in BOOLEAN :
               LET r == str_buf_reserve(Machine, U32Size(U32Add(arity, 1)), ok)
               IN  Commit(IF r.err THEN r ELSE Store(r, Ord["("]), "t_commas")
          /\ i' = 1
  /\ UNCHANGED <<input, char_code, arity, res, iter>>

\* for (size_t i = 1; i < arity; i++) data[length++] = ','; data[length++] = ')'
TComma ==
  /\ pc = "t_commas"
  /\ IF U32Above(arity, i)
     THEN Commit(Store(Machine, Ord[","]), "t_commas") /\ i' = i + 1
     ELSE Commit(Store(Machine, Ord[")"]), "loop") /\ i' = i
  /\ UNCHANGED <<input, mangled, c, char_code, arity, res, iter>>

\* case 'H': the unboxed tuple
TupleH ==
  /\ pc = "arity_end"
  /\ c = Ord["H"]
  /\ ADVANCE
  /\ IF U32Eq(arity, 0)
     THEN GotoFail /\ i' = i
     ELSE IF U32Eq(arity, 1)
     THEN /\ \E ok \in BOOLEAN :
               Commit(str_buf_push_str(Machine,
                        <<Ord["("], Ord["#"], Ord[" "], Ord["#"], Ord[")"]>>, ok), "loop")
          /\ i' = i
     ELSE /\ \E ok \in BOOLEAN :
               LET r == str_buf_reserve(Machine, U32Size(U32Add(arity, 3)), ok)
               IN  Commit(IF r.err THEN r ELSE StoreAll(r, <<Ord["("], Ord["#"]>>),
                          "h_commas")
          /\ i' = 1
  /\ UNCHANGED <<input, char_code, arity, res, iter>>

HComma ==
  /\ pc = "h_commas"
  /\ IF U32Above(arity, i)
     THEN Commit(Store(Machine, Ord[","]), "h_commas") /\ i' = i + 1
     ELSE Commit(StoreAll(Machine, <<Ord["#"], Ord[")"]>>), "loop") /\ i' = i
  /\ UNCHANGED <<input, mangled, c, char_code, arity, res, iter>>

\* default: goto fail (the arity run ends in neither 'T' nor 'H')
TupleBad ==
  /\ pc = "arity_end"
  /\ c \notin {Ord["T"], Ord["H"]}
  /\ GotoFail
  /\ UNCHANGED <<input, mangled, c, char_code, arity, i, res, iter>>

\* the letter after 'Z': Z_chars
ZUpperLetter ==
  /\ pc = "Z_letter"
  /\ IF c < Ord["C"] \/ c > Ord["Z"]
     THEN GotoFail /\ UNCHANGED <<c, mangled>>
     ELSE LET out == Z_chars(LetterIndex(c, Ord["C"]))
          IN  IF out = NUL
              THEN GotoFail /\ UNCHANGED <<c, mangled>>
              ELSE \E ok \in BOOLEAN :
                     LET m == str_buf_push(Machine, out, ok)
                     IN  Commit(m, "loop") /\ Then(m, ADVANCE)
  /\ UNCHANGED <<input, char_code, arity, i, res, iter>>

\* case '\0': PUSH('\0')
CaseTerminator ==
  /\ pc = "loop"
  /\ c = NUL
  /\ Mark
  /\ \E ok \in BOOLEAN : Commit(str_buf_push(Machine, NUL, ok), "shrink")
  /\ UNCHANGED <<input, mangled, c, char_code, arity, i, res>>

\* (a variant of ShrinkSize that keeps the capacity)
ShrinkSize_Capacity(b) == b.capacity

\* the size the final realloc asks for: buf.length
ShrinkSize(b) == b.length

\* char *res = realloc(buf.data, buf.length); if (res == NULL) goto fail; return res
Shrink ==
  /\ pc = "shrink"
  /\ \E ok \in BOOLEAN :
       LET r == realloc(Machine, buf.data, ShrinkSize(buf), ok)
       IN  /\ heap' = r.heap
           /\ nalloc' = r.nalloc
           /\ allocFailed' = r.oom
           /\ res' = r.ret
           /\ pc' = IF r.ret = NULL THEN "fail" ELSE "done"
  /\ UNCHANGED <<input, mangled, c, buf, char_code, arity, i, fault, iter>>

\* default: PUSH(PEEK); ADVANCE
CaseLiteral ==
  /\ pc = "loop"
  /\ c \notin {Ord["z"], Ord["Z"], NUL}
  /\ Mark
  /\ \E ok \in BOOLEAN :
       LET m == str_buf_push(Machine, c, ok)
       IN  Commit(m, "loop") /\ Then(m, ADVANCE)
  /\ UNCHANGED <<input, char_code, arity, i, res>>

\* fail: free(buf.data); return NULL
Fail ==
  /\ pc = "fail"
  /\ heap' = free(Machine, buf.data).heap
  /\ res' = NULL
  /\ pc' = "done"
  /\ UNCHANGED <<input, mangled, c, buf, nalloc, char_code, arity, i, allocFailed,
                 fault, iter>>

Next ==
  \/ Enter
  \/ CaseLowerZ
  \/ HexDigit
  \/ HexEnd
  \/ ZLowerLetter
  \/ CaseUpperZ
  \/ ArityDigit
  \/ TupleT
  \/ TComma
  \/ TupleH
  \/ HComma
  \/ TupleBad
  \/ ZUpperLetter
  \/ CaseTerminator
  \/ Shrink
  \/ CaseLiteral
  \/ Fail

Spec == Init /\ [][Next]_vars

(***************************************************************************)
(* The same function built with another value of DEFAULT_BUF_SIZE: the     *)
(* accumulator starts with any of a few positive capacities.               *)
(***************************************************************************)
MaxCap == 3

InitialCapacities == (1..MaxCap) \cup {DEFAULT_BUF_SIZE}

EnterCap == \E size \in InitialCapacities : EnterWith(size)

NextCap ==
  \/ EnterCap
  \/ CaseLowerZ
  \/ HexDigit
  \/ HexEnd
  \/ ZLowerLetter
  \/ CaseUpperZ
  \/ ArityDigit
  \/ TupleT
  \/ TComma
  \/ TupleH
  \/ HComma
  \/ TupleBad
  \/ ZUpperLetter
  \/ CaseTerminator
  \/ Shrink
  \/ CaseLiteral
  \/ Fail

SpecCap == Init /\ [][NextCap]_vars

(***************************************************************************)
(* Vocabulary of the properties.                                           *)
(***************************************************************************)
Succeeded == pc = "done" /\ res # NULL

\* the scan has left the iteration marked by iter through goto fail
IterFailed == pc = "fail" \/ (pc = "done" /\ res = NULL)

\* the iteration marked by iter is never completed and the call never succeeds
MustFail == pc \notin {"loop", "shrink", "ub"} /\ (pc = "done" => res = NULL)

\* the iteration marked by iter does not fail and writes only inside the storage
MustGoOn == fault = "none" /\ ~IterFailed

\* the iteration marked by iter is complete: the scan is back at the loop head
IterDone == pc = "loop" /\ iter.pos > 0

\* the bytes the completed iteration appended, if it kept what was there
Appended == SubSeq(Contents, iter.len + 1, Len(Contents))

KeptPrefix == Len(Contents) >= iter.len /\ SubSeq(Contents, 1, iter.len) = iter.data

\* the index of the lookahead byte
Cursor == mangled - 1

NoEscape(s) == \A j \in 1..Len(s) : s[j] \notin {Ord["z"], Ord["Z"]}

Saturation == 2 ^ 24

\* the value of a digit string in a base, exact below Saturation
RECURSIVE SatValue(_, _)
SatValue(s, base) ==
  IF s = <<>> THEN 0
  ELSE LET ch   == s[Len(s)]
           d    == IF isdigit(ch) THEN ch - Ord["0"] ELSE 10 + ch - Ord["a"]
           rest == SatValue(SubSeq(s, 1, Len(s) - 1), base)
       IN  IF rest * base + d >= Saturation THEN Saturation ELSE rest * base + d

IsLowerHex(ch) == isdigit(ch) \/ (ch >= Ord["a"] /\ ch <= Ord["f"])

\* the index of the first byte at or after p that is no decimal digit
RECURSIVE DecRunEnd(_)
DecRunEnd(p) == IF isdigit(input[p]) THEN DecRunEnd(p + 1) ELSE p

\* the index of the first byte at or after p that is no digit and no 'a'..'f'
RECURSIVE HexRunEnd(_)
HexRunEnd(p) == IF IsLowerHex(input[p]) THEN HexRunEnd(p + 1) ELSE p

\* the iteration marked by iter began at 'Z' followed by a decimal digit
TupleIter == iter.pos > 0 /\ input[iter.pos] = Ord["Z"] /\ isdigit(input[iter.pos + 1])
TupleEnd == DecRunEnd(iter.pos + 1)
TupleN == SatValue(SubSeq(input, iter.pos + 1, TupleEnd - 1), 10)

\* the iteration marked by iter began at 'z' followed by a decimal digit
HexIter == iter.pos > 0 /\ input[iter.pos] = Ord["z"] /\ isdigit(input[iter.pos + 1])
HexEndAt == HexRunEnd(iter.pos + 1)
HexV == SatValue(SubSeq(input, iter.pos + 1, HexEndAt - 1), 16)

\* the iteration marked by iter began at an introducer followed by no digit
LetterIter(intro) ==
  iter.pos > 0 /\ input[iter.pos] = intro /\ ~isdigit(input[iter.pos + 1])

(***************************************************************************)
(* C1.  An input with neither 'z' nor 'Z' is decoded to itself: while no   *)
(* allocation fails the scan never fails and never writes outside the      *)
(* storage, and the block returned holds the input bytes and the           *)
(* terminator.                                                             *)
(***************************************************************************)
C1_LiteralIdentity ==
  (NoEscape(input) /\ ~allocFailed) =>
     /\ fault = "none"
     /\ pc # "fail"
     /\ (pc = "done" => res # NULL /\ heap[res] = input)

C1_Witness ==
  /\ Succeeded
  /\ NoEscape(input)
  /\ Len(input) > DEFAULT_BUF_SIZE + DEFAULT_BUF_SIZE \div 2
  /\ heap[res] = input

(***************************************************************************)
(* C2.  'Z', a run of decimal digits of value n, 'T': while no allocation  *)
(* fails, n = 0 appends "()", n = 1 fails, n >= 2 appends '(' then n - 1   *)
(* commas then ')' after the bytes already decoded, and a run followed by  *)
(* a byte other than 'T' and 'H' fails.                                    *)
(***************************************************************************)
C2_TupleT ==
  (TupleIter /\ ~allocFailed) =>
     IF input[TupleEnd] = Ord["T"]
     THEN IF TupleN = 1
          THEN MustFail
          ELSE /\ MustGoOn
               /\ IterDone =>
                    /\ Cursor = TupleEnd + 1
                    /\ KeptPrefix
                    /\ Len(Appended) = (IF TupleN = 0 THEN 2 ELSE TupleN + 1)
                    /\ Appended[1] = Ord["("]
                    /\ Appended[Len(Appended)] = Ord[")"]
                    /\ \A j \in 2..(Len(Appended) - 1) : Appended[j] = Ord[","]
     ELSE input[TupleEnd] # Ord["H"] => MustFail

(***************************************************************************)
(* C3.  'Z', a run of decimal digits of value n, 'H': while no allocation  *)
(* fails, n = 0 fails, n = 1 appends "(# #)" and n >= 2 appends "(#" then  *)
(* n - 1 commas then "#)", after the bytes already decoded.                *)
(***************************************************************************)
C3_TupleH ==
  (TupleIter /\ ~allocFailed /\ input[TupleEnd] = Ord["H"]) =>
     IF TupleN = 0
     THEN MustFail
     ELSE /\ MustGoOn
          /\ IterDone =>
               /\ Cursor = TupleEnd + 1
               /\ KeptPrefix
               /\ IF TupleN = 1
                  THEN Appended = <<Ord["("], Ord["#"], Ord[" "], Ord["#"], Ord[")"]>>
                  ELSE /\ Len(Appended) = TupleN + 3
                       /\ SubSeq(Appended, 1, 2) = <<Ord["("], Ord["#"]>>
                       /\ SubSeq(Appended, Len(Appended) - 1, Len(Appended))
                            = <<Ord["#"], Ord[")"]>>
                       /\ \A j \in 3..(Len(Appended) - 2) : Appended[j] = Ord[","]

(***************************************************************************)
(* C4.  'z', a decimal digit, a run of digits and 'a'..'f' of value        *)
(* v <= 0x10FFFF, 'U': while no allocation fails, the UTF-8 encoding of v  *)
(* is appended (1, 2, 3 or 4 bytes by tier; the leading byte carries the   *)
(* length pattern, each continuation byte 10xxxxxx with six payload bits)  *)
(* and the scan continues after the 'U'.                                   *)
(***************************************************************************)
\* bs is the UTF-8 encoding of v, stated by decoding bs
IsUtf8Of(bs, v) ==
  LET cont(b) == b >= 128 /\ b <= 191
  IN  IF v <= 127 THEN bs = <<v>>
      ELSE IF v <= 2047
      THEN /\ Len(bs) = 2
           /\ bs[1] >= 192 /\ bs[1] <= 223 /\ cont(bs[2])
           /\ (bs[1] - 192) * 64 + (bs[2] - 128) = v
      ELSE IF v <= 65535
      THEN /\ Len(bs) = 3
           /\ bs[1] >= 224 /\ bs[1] <= 239 /\ cont(bs[2]) /\ cont(bs[3])
           /\ ((bs[1] - 224) * 64 + (bs[2] - 128)) * 64 + (bs[3] - 128) = v
      ELSE /\ Len(bs) = 4
           /\ bs[1] >= 240 /\ bs[1] <= 247 /\ cont(bs[2]) /\ cont(bs[3]) /\ cont(bs[4])
           /\ (((bs[1] - 240) * 64 + (bs[2] - 128)) * 64 + (bs[3] - 128)) * 64
                + (bs[4] - 128) = v

C4_CodePoint ==
  (HexIter /\ ~allocFailed /\ input[HexEndAt] = Ord["U"] /\ HexV <= MaxCharCode) =>
     /\ MustGoOn
     /\ IterDone =>
          /\ Cursor = HexEndAt + 1
          /\ KeptPrefix
          /\ IsUtf8Of(Appended, HexV)

C4_Witness ==
  /\ IterDone
  /\ HexIter
  /\ input[HexEndAt] = Ord["U"]
  /\ HexV > 65535
  /\ HexV <= MaxCharCode
  /\ iter.len > 0
  /\ Len(Appended) = 4

(***************************************************************************)
(* C5.  An introducer followed by no decimal digit: after 'z' a letter of  *)
(* a b c d e g h i l m n p q r s t u v z, after 'Z' a letter of            *)
(* C L M N R Z appends (while no allocation fails) exactly the one         *)
(* character of its table entry and the scan continues after the letter;   *)
(* every other byte, the terminator included, makes the decode fail.       *)
(***************************************************************************)
\* letter, character: the entries of the two tables
LowerEntries ==
  {<<97, 38>>, <<98, 124>>, <<99, 94>>, <<100, 36>>, <<101, 61>>, <<103, 62>>,
   <<104, 35>>, <<105, 46>>, <<108, 60>>, <<109, 45>>, <<110, 33>>, <<112, 43>>,
   <<113, 39>>, <<114, 92>>, <<115, 47>>, <<116, 42>>, <<117, 95>>, <<118, 37>>,
   <<122, 122>>}

UpperEntries ==
  {<<67, 58>>, <<76, 40>>, <<77, 91>>, <<78, 93>>, <<82, 41>>, <<90, 90>>}

LetterRule(intro, entries) ==
  LetterIter(intro) =>
     LET b == input[iter.pos + 1]
     IN  IF \E e \in entries : e[1] = b
         THEN ~allocFailed =>
                /\ MustGoOn
                /\ IterDone =>
                     /\ Cursor = iter.pos + 2
                     /\ KeptPrefix
                     /\ \E e \in entries : e[1] = b /\ Appended = <<e[2]>>
         ELSE MustFail

C5_Letters == LetterRule(Ord["z"], LowerEntries) /\ LetterRule(Ord["Z"], UpperEntries)

C5_Witness ==
  /\ IterDone
  /\ LetterIter(Ord["Z"])
  /\ input[iter.pos + 1] = 82
  /\ iter.len = DEFAULT_BUF_SIZE
  /\ Appended = <<Ord[")"]>>

(***************************************************************************)
(* C6.  A numeric escape whose hex run denotes a value above 0x10FFFF      *)
(* makes the decode fail (no allocation failing), whatever the length of   *)
(* the run.                                                                *)
(***************************************************************************)
C6_OutOfRange ==
  (HexIter /\ ~allocFailed /\ input[HexEndAt] = Ord["U"] /\ HexV > MaxCharCode) => MustFail

(***************************************************************************)
(* C7.  In a numeric escape only decimal digits and 'a'..'f' are consumed; *)
(* the first other byte must be 'U', else the decode fails (no allocation  *)
(* failing).                                                               *)
(***************************************************************************)
C7_HexRunEnd ==
  (HexIter /\ ~allocFailed /\ input[HexEndAt] # Ord["U"]) => MustFail

(***************************************************************************)
(* C8 as stated: the input "ZZT" is decoded to "()" (no allocation         *)
(* failing).                                                               *)
(***************************************************************************)
InputZZT == input = <<Ord["Z"], Ord["Z"], Ord["T"], NUL>>

C8_ZZT_Unit ==
  (InputZZT /\ ~allocFailed) =>
     /\ fault = "none"
     /\ pc # "fail"
     /\ (pc = "done" => res # NULL /\ heap[res] = <<Ord["("], Ord[")"], NUL>>)

(***************************************************************************)
(* C8 as amended: the input "ZZT" is decoded to "ZT" (no allocation        *)
(* failing): "ZZ" is the escape of 'Z', and 'T' is then a literal.         *)
(***************************************************************************)
C8_ZZT ==
  (InputZZT /\ ~allocFailed) =>
     /\ fault = "none"
     /\ pc # "fail"
     /\ (pc = "done" => res # NULL /\ heap[res] = <<Ord["Z"], Ord["T"], NUL>>)

C8_Witness == InputZZT /\ Succeeded /\ Len(heap[res]) = 3

(***************************************************************************)
(* C9.  On every failing exit the call returns NULL and no block allocated *)
(* during the call remains allocated.                                      *)
(***************************************************************************)
C9_NoLeak == (pc = "done" /\ res = NULL) => DOMAIN heap = {}

(***************************************************************************)
(* C10.  Every allocation site is checked: no byte is written through a    *)
(* null storage pointer, and a call in which an allocation failed returns  *)
(* NULL.                                                                   *)
(***************************************************************************)
C10_Checked ==
  /\ fault # "null_write"
  /\ (pc = "done" /\ allocFailed) => res = NULL

(***************************************************************************)
(* C11.  On success the block returned is the only block left allocated,   *)
(* its size is exactly buf.length, which is the number of bytes decoded    *)
(* before the terminator plus one, and its last byte is the terminator.    *)
(***************************************************************************)
C11_ExactSize ==
  Succeeded =>
     /\ DOMAIN heap = {res}
     /\ Len(heap[res]) = buf.length
     /\ buf.length = iter.len + 1
     /\ input[iter.pos] = NUL
     /\ heap[res][buf.length] = NUL

C11_Witness ==
  /\ Succeeded
  /\ Len(heap[res]) > 1
  /\ Len(heap[res]) < buf.capacity
  /\ heap[res][Len(heap[res])] = NUL

(***************************************************************************)
(* C12.  Every iteration of the loop advances the cursor by at least one   *)
(* byte, returns or fails, so that (no allocation failing) the call always *)
(* returns: the scan is never left anywhere but at a return.               *)
(***************************************************************************)
Returned == pc = "done"

\* the positions of the code from which the next statement can be executed
Running ==
  {"start", "loop", "hex", "hex_end", "z_letter", "Z_letter", "arity", "arity_end",
   "t_commas", "h_commas", "shrink", "fail"}

C12_Progress ==
  ~allocFailed =>
     /\ IterDone => Cursor > iter.pos
     /\ Cursor >= iter.pos
     /\ Returned \/ pc \in Running

(***************************************************************************)
(* C13.  In every reachable state length <= capacity, and no byte is       *)
(* written at an index outside the allocated storage, whatever the arity.  *)
(***************************************************************************)
C13_InBounds ==
  /\ buf.length <= buf.capacity
  /\ fault # "oob_write"

(***************************************************************************)
(* C14.  The accumulator is append-only: a step that leaves the storage in *)
(* use keeps the bytes at indices 0 .. length-1 as they were, and the      *)
(* length never decreases (the new bytes lie at length .. length+n-1).     *)
(***************************************************************************)
AppendOnlyStep ==
  (buf.data # NULL /\ buf'.data # NULL /\ pc' \notin {"done", "ub"}) =>
     /\ buf'.length >= buf.length
     /\ SubSeq(Contents', 1, buf.length) = Contents
     /\ \A j \in (buf.length + 1)..buf'.length : Contents'[j] # Uninit

C14_AppendOnly == [][AppendOnlyStep]_vars

(***************************************************************************)
(* C15.  str_buf_reserve(buf, n), at the places of the scan that call it   *)
(* and for every amount n: the length and the stored bytes are unchanged;  *)
(* if length + n <= capacity nothing changes and nothing is allocated;     *)
(* otherwise realloc is called once, and when it succeeds the capacity is  *)
(* max(length + n, capacity + capacity / 2), so capacity - length >= n     *)
(* (when it fails no byte of the old block is written, the capacity field *)
(* keeps its value and the storage pointer is NULL).                       *)
(***************************************************************************)
\* the amounts: those the scan asks for and the ones between, and one that
\* no allocation satisfies
ReserveAmounts == (0..(MaxArity + 4)) \cup {Half}

MaxOf(a, b) == IF a >= b THEN a ELSE b

ReserveContract(n, ok) ==
  LET r == str_buf_reserve(Machine, n, ok)
  IN  /\ r.buf.length = buf.length
      /\ r.fault = fault
      /\ IF buf.length + n <= buf.capacity
         THEN r = Machine
         ELSE IF r.err
         THEN /\ r.buf.capacity = buf.capacity
              /\ r.buf.data = NULL
              /\ r.heap = heap
              /\ r.nalloc = nalloc
              /\ r.oom
         ELSE /\ r.nalloc = nalloc + 1
              /\ r.oom = allocFailed
              /\ DOMAIN r.heap = ((DOMAIN heap) \ {buf.data}) \cup {r.buf.data}
              /\ r.buf.capacity
                   = MaxOf(buf.length + n, buf.capacity + buf.capacity \div 2)
              /\ r.buf.capacity - r.buf.length >= n
              /\ Len(r.heap[r.buf.data]) = r.buf.capacity
              /\ SubSeq(r.heap[r.buf.data], 1, buf.length) = Contents

C15_Reserve ==
  (pc \in {"hex_end", "arity_end"} /\ fault = "none") =>
     \A n \in ReserveAmounts : \A ok \in BOOLEAN : ReserveContract(n, ok)

\* the reserve of 4 at length 17 has grown the capacity from 20 to 30
C15_Witness ==
  /\ IterDone
  /\ HexIter
  /\ iter.len = DEFAULT_BUF_SIZE - 3
  /\ buf.capacity = DEFAULT_BUF_SIZE + DEFAULT_BUF_SIZE \div 2
  /\ buf.length > iter.len

(***************************************************************************)
(* C16.  Whatever positive capacity the accumulator starts with, the       *)
(* length never exceeds the capacity, no write falls outside the storage   *)
(* and the result is the one obtained with the capacity of 20: for an      *)
(* input with neither 'z' nor 'Z', while no allocation fails, the call     *)
(* succeeds and returns the input.                                         *)
(***************************************************************************)
C16_AnyCapacity ==
  (NoEscape(input) /\ ~allocFailed) =>
     /\ buf.length <= buf.capacity
     /\ fault = "none"
     /\ pc # "fail"
     /\ (pc = "done" => res # NULL /\ heap[res] = input)

(***************************************************************************)
(* C17.  No input byte beyond the terminator is read: every index read is  *)
(* at most that of the terminator and the lookahead is the byte there.     *)
(* Once the terminator is the lookahead no ADVANCE follows.  Read at top   *)
(* level it is pushed and the storage shrunk; read right after 'z' or 'Z'  *)
(* or at the end of a hex run or of an arity run it leads to the fail      *)
(* label and to the return of NULL.  A call succeeds only if it read the   *)
(* terminator at top level.                                                *)
(***************************************************************************)
TerminatorRead == pc # "start" /\ c = NUL

\* the terminator is the lookahead where an escape needs another byte
CutShort == TerminatorRead /\ pc \in {"z_letter", "Z_letter", "hex", "hex_end",
                                      "arity", "arity_end"}

ReadsInside ==
  /\ mangled <= Len(input) + 1
  /\ pc # "start" => c = input[Cursor]
  /\ TerminatorRead => Cursor = Len(input)
  /\ Succeeded => (TerminatorRead /\ iter.pos = Len(input))

StopsAtTerminator ==
  /\ TerminatorRead => (mangled' = mangled /\ c' = c)
  /\ (TerminatorRead /\ pc = "loop") => pc' \in {"shrink", "fail", "ub"}
  /\ CutShort => pc' = "fail"
  /\ pc = "fail" => (pc' = "done" /\ res' = NULL)

C17_NoReadPast == [](ReadsInside) /\ [][StopsAtTerminator]_vars

\* the terminator ended a hex run and the call returned NULL with no
\* allocation having failed
C17_Witness ==
  /\ pc = "done"
  /\ res = NULL
  /\ ~allocFailed
  /\ HexIter
  /\ TerminatorRead
  /\ input[HexEndAt] = NUL

(***************************************************************************)
(* C18.  The block returned on success holds no zero byte before its last  *)
(* byte, the terminator.                                                   *)
(***************************************************************************)
C18_NoInnerZero ==
  (Succeeded /\ ~allocFailed) =>
     \A j \in 1..(Len(heap[res]) - 1) : heap[res][j] # NUL

====
